---- MODULE Spec2Model ----
(***************************************************************************)
(* Model of smart-meter-rs (src/src/lib.rs): the frame reassembly and      *)
(* decryption loop `parse_next`, the engine iterators MBusSmartMeter /     *)
(* HdlcSmartMeter that call it, and the ObisIterator wrapped around them.  *)
(*                                                                         *)
(* The byte stream is a finite sequence of abstract bytes.  The link-layer *)
(* parser and the DLMS decryption are external crates; they are modelled   *)
(* as deterministic pure functions over a small frame grammar:             *)
(*   a frame is a header byte followed by FrameLen(header)-1 bytes "p";    *)
(*   the header byte says what the decryption layer makes of the frame.    *)
(***************************************************************************)
EXTENDS Integers, Sequences, FiniteSets, TLC

VARIABLES
  stream,            \* every byte the Byte Source will ever deliver
  reader,            \* R: the bytes of the stream not yet read
  wrapped,           \* TRUE: built by new() (ObisIterator<Self>); FALSE: new_apdu()/apdu_iter()
  buffer,            \* Vec<u8> buffer of the engine
  bytes_needed,      \* local of parse_next
  telegrams_needed,  \* local of parse_next
  limit,             \* what is left of Take's limit during read_to_end
  telegrams,         \* local Vec of parsed frames (byte slices of the buffer)
  telegram_1_len,    \* local of parse_next
  telegrams_len,     \* local of parse_next
  pc,                \* position: "idle", "read", "parse", "decrypt", "ret"
  item,              \* the value parse_next returned last
  engine_out,        \* history: every item the engine iterator returned
  yielded,           \* history: every item handed to the caller
  spans,             \* history: stream offsets [start, end) of each Ok(apdu) of the engine
  consumed,          \* history: number of bytes removed from the front of buffer so far
  ioerrs,            \* history: number of read failures of the Byte Source so far
  resyncs,           \* history: one-byte resync steps since the caller's pull started
  attempt,           \* history: the previous parse attempt of this parse_next call
  dripped,           \* history: some read_to_end was served by more than one read()
  interrupted        \* history: the last read() of the source failed with ErrorKind::Interrupted

vars == <<stream, reader, wrapped, buffer, bytes_needed, telegrams_needed, limit,
          telegrams, telegram_1_len, telegrams_len, pc, item, engine_out, yielded,
          spans, consumed, ioerrs, resyncs, attempt, dripped, interrupted>>

----------------------------------------------------------------------------
(* Bounds of the model *)

MaxSegs == 3        \* segments (garbage bytes, frames) in a stream
MaxPulls == 3       \* items the caller pulls
MaxIoErrors == 1    \* read failures of the Byte Source

----------------------------------------------------------------------------
(* Helpers *)

Min(a, b) == IF a < b THEN a ELSE b

Drop(s, n) == SubSeq(s, n + 1, Len(s))

Prefix(s, n) == SubSeq(s, 1, n)

RECURSIVE Flatten(_)
Flatten(ss) == IF ss = <<>> THEN <<>> ELSE Head(ss) \o Flatten(Tail(ss))

RECURSIVE SumLen(_)
SumLen(ss) == IF ss = <<>> THEN 0 ELSE Len(Head(ss)) + SumLen(Tail(ss))

----------------------------------------------------------------------------
(* The external link layer: Telegram::parse / HdlcFrame::parse *)

FrameHeaders == {"F", "U", "M", "N", "X", "C", "D", "b"}

FrameLen(h) == IF h = "M" THEN 3 ELSE 2

\* The "no hint" value of Option<NonZeroUsize>
NoHint == 0

\* Result<(&[u8], Frame), MBusError>: the frame is the consumed prefix.
parse_frame(input) ==
  IF input = <<>> THEN [tag |-> "Incomplete", hint |-> NoHint]
  ELSE IF input[1] \notin FrameHeaders THEN [tag |-> "InvalidStartCharacter"]
  ELSE IF \E k \in 2..Min(Len(input), FrameLen(input[1])) : input[k] # "p"
         THEN [tag |-> "InvalidFormat"]
  ELSE IF Len(input) < FrameLen(input[1])
         THEN [tag |-> "Incomplete", hint |-> FrameLen(input[1]) - Len(input)]
  ELSE IF input[1] = "b" THEN [tag |-> "ChecksumMismatch"]
  ELSE [tag |-> "Ok", frame |-> Prefix(input, FrameLen(input[1])),
        rest |-> Drop(input, FrameLen(input[1]))]

\* impl From<MBusError> for ParseError / impl From<HdlcError> for ParseError
ParseErrorFrom(r) ==
  CASE r.tag = "InvalidStartCharacter" -> [tag |-> "InvalidStart"]
    [] r.tag \in {"InvalidFormat", "ChecksumMismatch"} -> [tag |-> "Other"]
    [] r.tag = "Incomplete" -> [tag |-> "Incomplete", hint |-> r.hint]
    [] OTHER -> r

----------------------------------------------------------------------------
(* The external decryption layer: Dlms::decrypt_apdu *)

\* decrypt_apdu walks the frames from the first one; the frames it did not
\* use are returned next to the Apdu and dropped by `.map(|(_, apdu)| apdu)`.
RECURSIVE DecryptFrom(_, _)
DecryptFrom(frames, i) ==
  LET k == frames[i][1] IN
  CASE k = "M" -> IF i = Len(frames) THEN [tag |-> "Incomplete", hint |-> NoHint]
                  ELSE DecryptFrom(frames, i + 1)
    [] k = "N" -> IF i + 2 > Len(frames)
                  THEN [tag |-> "Incomplete", hint |-> i + 2 - Len(frames)]
                  ELSE DecryptFrom(frames, i + 2)
    [] k = "X" -> [tag |-> "InvalidFormat"]
    [] k = "C" -> [tag |-> "ChecksumMismatch"]
    [] k = "D" -> [tag |-> "DecryptionFailed"]
    [] OTHER   -> [tag |-> "Ok", apdu |-> Prefix(frames, i)]

decrypt(frames) == DecryptFrom(frames, 1)

\* ObisMap::parse(&apdu): the payload decoder.
ObisMap_parse(apdu) ==
  IF apdu[Len(apdu)][1] = "F" THEN [tag |-> "Ok", obis |-> Flatten(apdu)]
  ELSE [tag |-> "Err"]

----------------------------------------------------------------------------
(* The for loop of parse_next over the frames of one attempt *)

\* Mutant: `telegrams_len = telegram_len` instead of `+=`.
RECURSIVE ParseLoop_LastLen(_, _, _, _)
ParseLoop_LastLen(buf, i, n, acc) ==
  IF i = n THEN acc
  ELSE LET r == ParseErrorFrom(parse_frame(buf)) IN
       IF r.tag = "Ok"
       THEN ParseLoop_LastLen(r.rest, i + 1, n,
                      [acc EXCEPT !.telegrams = Append(@, r.frame),
                                  !.telegram_1_len = IF i = 0 THEN Len(r.frame) ELSE @,
                                  !.telegrams_len = Len(r.frame)])
       ELSE [acc EXCEPT !.err = r.tag,
                        !.hint = IF r.tag = "Incomplete" THEN r.hint ELSE NoHint]

\* Mutant: `telegram_len = buf.len()`, the length of all the input left.
RECURSIVE ParseLoop_WholeLen(_, _, _, _)
ParseLoop_WholeLen(buf, i, n, acc) ==
  IF i = n THEN acc
  ELSE LET r == ParseErrorFrom(parse_frame(buf)) IN
       IF r.tag = "Ok"
       THEN ParseLoop_WholeLen(r.rest, i + 1, n,
                      [acc EXCEPT !.telegrams = Append(@, r.frame),
                                  !.telegram_1_len = IF i = 0 THEN Len(buf) ELSE @,
                                  !.telegrams_len = @ + Len(buf)])
       ELSE [acc EXCEPT !.err = r.tag,
                        !.hint = IF r.tag = "Incomplete" THEN r.hint ELSE NoHint]

RECURSIVE ParseLoop(_, _, _, _)
ParseLoop(buf, i, n, acc) ==
  IF i = n THEN acc
  ELSE LET r == ParseErrorFrom(parse_frame(buf)) IN
       IF r.tag = "Ok"
       THEN ParseLoop(r.rest, i + 1, n,
                      [acc EXCEPT !.telegrams = Append(@, r.frame),
                                  !.telegram_1_len = IF i = 0 THEN Len(r.frame) ELSE @,
                                  !.telegrams_len = @ + Len(r.frame)])
       ELSE [acc EXCEPT !.err = r.tag,
                        !.hint = IF r.tag = "Incomplete" THEN r.hint ELSE NoHint]

ParseFrames(buf, n) ==
  ParseLoop(buf, 0, n, [err |-> "None", hint |-> NoHint, telegrams |-> <<>>,
                        telegram_1_len |-> 0, telegrams_len |-> 0])

\* n.map(|b| b.get()).unwrap_or(1)
UnwrapOr1(hint) == IF hint = NoHint THEN 1 ELSE hint

----------------------------------------------------------------------------
(* Streams *)

Segments ==
  { <<"g">>, <<"F">>, <<"b", "p">>, <<"F", "p">>, <<"U", "p">>, <<"M", "p", "p">>,
    <<"N", "p">>, <<"X", "p">>, <<"C", "p">>, <<"D", "p">> }

RECURSIVE SegSeqs(_)
SegSeqs(n) ==
  IF n = 0 THEN { <<>> }
  ELSE LET S == SegSeqs(n - 1) IN
       S \cup { s \o <<g>> : s \in { t \in S : Len(t) = n - 1 }, g \in Segments }

Streams == { Flatten(s) : s \in SegSeqs(MaxSegs) }

NoAttempt == [outcome |-> "none"]

----------------------------------------------------------------------------
(* Init: MBusSmartMeter::new / new_apdu, HdlcSmartMeter::new / apdu_iter *)

Init ==
  /\ stream \in Streams
  /\ reader = stream
  /\ wrapped \in BOOLEAN
  /\ buffer = <<>>
  /\ bytes_needed = 0
  /\ telegrams_needed = 1
  /\ limit = 0
  /\ telegrams = <<>>
  /\ telegram_1_len = 0
  /\ telegrams_len = 0
  /\ pc = "idle"
  /\ item = [ok |-> FALSE, err |-> "none"]
  /\ engine_out = <<>>
  /\ yielded = <<>>
  /\ spans = <<>>
  /\ consumed = 0
  /\ ioerrs = 0
  /\ resyncs = 0
  /\ attempt = NoAttempt
  /\ dripped = FALSE
  /\ interrupted = FALSE

----------------------------------------------------------------------------
(* Results of parse_next *)

OkItem(apdu) == [ok |-> TRUE, apdu |-> apdu]

ErrItem(e) == [ok |-> FALSE, err |-> e]

\* Mutant: two bytes are removed on a resync.
RemoveFront_Two(buf) == Drop(buf, 2)

\* buffer.remove(0)
RemoveFront(buf) == Tail(buf)

\* Mutant: the drain takes the bytes off the back of the buffer.
Drain_Back(buf, n) == Prefix(buf, Len(buf) - n)

\* buffer.drain(0..n)
Drain(buf, n) == Drop(buf, n)

NRead == Len(stream) - Len(reader)

\* The state a parse attempt leaves behind for the next one to be compared with.
Attempt(outcome) ==
  [outcome |-> outcome, buf |-> buffer, needed |-> telegrams_needed, nread |-> NRead]

----------------------------------------------------------------------------
(* parse_next, entered by the iterators' next() *)

\* let mut bytes_needed = 0; let mut telegrams_needed = 1;
EnterParseNext ==
  /\ bytes_needed' = 0
  /\ telegrams_needed' = 1
  /\ limit' = 0
  /\ telegrams' = <<>>
  /\ telegram_1_len' = 0
  /\ telegrams_len' = 0
  /\ attempt' = NoAttempt
  /\ pc' = "read"

\* return Some(it)
Return(it) ==
  /\ item' = it
  /\ engine_out' = Append(engine_out, it)
  /\ pc' = "ret"

\* The caller calls next() on the iterator it was given.
Pull ==
  /\ pc = "idle"
  /\ Len(yielded) < MaxPulls
  /\ EnterParseNext
  /\ resyncs' = 0
  /\ UNCHANGED <<stream, reader, wrapped, buffer, item, engine_out, yielded, spans,
                 consumed, ioerrs, dripped, interrupted>>

\* Mutant: a read() that delivers less than the limit is not appended.
ReadChunk_DropsShort ==
  /\ pc = "read"
  /\ limit > 0
  /\ \E c \in 1..Min(limit, Len(reader)) :
       /\ buffer' = IF c < limit THEN buffer ELSE buffer \o Prefix(reader, c)
       /\ reader' = Drop(reader, c)
       /\ limit' = limit - c
       /\ dripped' = (dripped \/ c < limit)
  /\ interrupted' = FALSE
  /\ UNCHANGED <<stream, wrapped, bytes_needed, telegrams_needed, telegrams,
                 telegram_1_len, telegrams_len, pc, item, engine_out, yielded, spans,
                 consumed, ioerrs, resyncs, attempt>>

\* Mutant: read_to_end without take(): the limit is never used up.
ReadChunk_NoLimit ==
  /\ pc = "read"
  /\ limit > 0
  /\ \E c \in 1..Min(limit, Len(reader)) :
       /\ buffer' = buffer \o Prefix(reader, c)
       /\ reader' = Drop(reader, c)
       /\ limit' = limit
       /\ dripped' = (dripped \/ c < limit)
  /\ interrupted' = FALSE
  /\ UNCHANGED <<stream, wrapped, bytes_needed, telegrams_needed, telegrams,
                 telegram_1_len, telegrams_len, pc, item, engine_out, yielded, spans,
                 consumed, ioerrs, resyncs, attempt>>

\* reader.take(bytes_needed).read_to_end(buffer): one read() of the source
\* that delivers c bytes, c no larger than what is left of the limit.
ReadChunk ==
  /\ pc = "read"
  /\ limit > 0
  /\ \E c \in 1..Min(limit, Len(reader)) :
       /\ buffer' = buffer \o Prefix(reader, c)
       /\ reader' = Drop(reader, c)
       /\ limit' = limit - c
       /\ dripped' = (dripped \/ c < limit)
  /\ interrupted' = FALSE
  /\ UNCHANGED <<stream, wrapped, bytes_needed, telegrams_needed, telegrams,
                 telegram_1_len, telegrams_len, pc, item, engine_out, yielded, spans,
                 consumed, ioerrs, resyncs, attempt>>

\* The source is at its end: read() returns 0 and read_to_end returns Ok.
ReadEof ==
  /\ pc = "read"
  /\ limit > 0
  /\ reader = <<>>
  /\ limit' = 0
  /\ pc' = "parse"
  /\ interrupted' = FALSE
  /\ UNCHANGED <<stream, reader, wrapped, buffer, bytes_needed, telegrams_needed,
                 telegrams, telegram_1_len, telegrams_len, item, engine_out, yielded,
                 spans, consumed, ioerrs, resyncs, attempt, dripped>>

\* The limit is used up (Take returns 0 without reading): read_to_end returns Ok.
ReadDone ==
  /\ pc = "read"
  /\ limit = 0
  /\ pc' = "parse"
  /\ UNCHANGED <<stream, reader, wrapped, buffer, bytes_needed, telegrams_needed, limit,
                 telegrams, telegram_1_len, telegrams_len, item, engine_out, yielded,
                 spans, consumed, ioerrs, resyncs, attempt, dripped, interrupted>>

\* Mutant: a failed read is issued again instead of being returned.
ReadErr_Retries ==
  /\ pc = "read"
  /\ limit > 0
  /\ ioerrs < MaxIoErrors
  /\ ioerrs' = ioerrs + 1
  /\ interrupted' = FALSE
  /\ UNCHANGED <<stream, reader, wrapped, buffer, bytes_needed, telegrams_needed, limit,
                 telegrams, telegram_1_len, telegrams_len, pc, item, engine_out, yielded,
                 spans, consumed, resyncs, attempt, dripped>>

\* Err(err) => return Some(Err(Error::Io(err)))
ReadErr ==
  /\ pc = "read"
  /\ limit > 0
  /\ ioerrs < MaxIoErrors
  /\ ioerrs' = ioerrs + 1
  /\ limit' = 0
  /\ Return(ErrItem("Io"))
  /\ interrupted' = FALSE
  /\ UNCHANGED <<stream, reader, wrapped, buffer, bytes_needed, telegrams_needed,
                 telegrams, telegram_1_len, telegrams_len, yielded, spans, consumed,
                 resyncs, attempt, dripped>>

\* Mutant: an incomplete frame resets telegrams_needed.
ParseIncomplete_ResetsFrames ==
  /\ pc = "parse"
  /\ LET r == ParseFrames(buffer, telegrams_needed) IN
       /\ r.err = "Incomplete"
       /\ bytes_needed' = UnwrapOr1(r.hint)
       /\ limit' = UnwrapOr1(r.hint)
  /\ telegrams_needed' = 1
  /\ telegrams' = <<>>
  /\ telegram_1_len' = 0
  /\ telegrams_len' = 0
  /\ attempt' = Attempt("Incomplete")
  /\ pc' = "read"
  /\ UNCHANGED <<stream, reader, wrapped, buffer, item, engine_out,
                 yielded, spans, consumed, ioerrs, resyncs, dripped, interrupted>>

\* Some(ParseError::Incomplete(n)) => { bytes_needed = ...; continue 'outer; }
ParseIncomplete ==
  /\ pc = "parse"
  /\ LET r == ParseFrames(buffer, telegrams_needed) IN
       /\ r.err = "Incomplete"
       /\ bytes_needed' = UnwrapOr1(r.hint)
       /\ limit' = UnwrapOr1(r.hint)
  /\ telegrams' = <<>>
  /\ telegram_1_len' = 0
  /\ telegrams_len' = 0
  /\ attempt' = Attempt("Incomplete")
  /\ pc' = "read"
  /\ UNCHANGED <<stream, reader, wrapped, buffer, telegrams_needed, item, engine_out,
                 yielded, spans, consumed, ioerrs, resyncs, dripped, interrupted>>

\* The body shared by the InvalidStart and the Other arm:
\* drop(telegrams); buffer.remove(0); bytes_needed = 0; continue 'outer;
Resync(outcome) ==
  /\ buffer' = RemoveFront(buffer)
  /\ consumed' = consumed + 1
  /\ resyncs' = resyncs + 1
  /\ bytes_needed' = 0
  /\ limit' = 0
  /\ telegrams' = <<>>
  /\ telegram_1_len' = 0
  /\ telegrams_len' = 0
  /\ attempt' = Attempt(outcome)
  /\ pc' = "read"
  /\ UNCHANGED <<stream, reader, wrapped, telegrams_needed, item, engine_out, yielded,
                 spans, ioerrs, dripped, interrupted>>

\* Mutant: an invalid start character is returned to the caller.
ParseInvalidStart_Surfaces ==
  /\ pc = "parse"
  /\ ParseFrames(buffer, telegrams_needed).err = "InvalidStart"
  /\ Return(ErrItem("InvalidStart"))
  /\ attempt' = Attempt("InvalidStart")
  /\ UNCHANGED <<stream, reader, wrapped, buffer, bytes_needed, telegrams_needed, limit,
                 telegrams, telegram_1_len, telegrams_len, yielded, spans, consumed,
                 ioerrs, resyncs, dripped, interrupted>>

\* Some(ParseError::InvalidStart) => ...
ParseInvalidStart ==
  /\ pc = "parse"
  /\ ParseFrames(buffer, telegrams_needed).err = "InvalidStart"
  /\ Resync("InvalidStart")

\* Some(ParseError::Other) => ...
ParseOther ==
  /\ pc = "parse"
  /\ ParseFrames(buffer, telegrams_needed).err = "Other"
  /\ Resync("Other")

\* Every frame of the attempt parsed: the for loop ends; bytes_needed = 0.
ParseComplete ==
  /\ pc = "parse"
  /\ LET r == ParseFrames(buffer, telegrams_needed) IN
       /\ r.err = "None"
       /\ telegrams' = r.telegrams
       /\ telegram_1_len' = r.telegram_1_len
       /\ telegrams_len' = r.telegrams_len
  /\ bytes_needed' = 0
  /\ limit' = 0
  /\ attempt' = Attempt("Complete")
  /\ pc' = "decrypt"
  /\ UNCHANGED <<stream, reader, wrapped, buffer, telegrams_needed, item, engine_out,
                 yielded, spans, consumed, ioerrs, resyncs, dripped, interrupted>>

\* Mutant: only the first frame is drained on success.
DecryptOk_DrainFirst ==
  /\ pc = "decrypt"
  /\ LET d == decrypt(telegrams) IN
       /\ d.tag = "Ok"
       /\ Return(OkItem(d.apdu))
  /\ buffer' = Drain(buffer, telegram_1_len)
  /\ consumed' = consumed + telegram_1_len
  /\ spans' = Append(spans, [start |-> consumed, end |-> consumed + telegram_1_len])
  /\ telegrams' = <<>>
  /\ UNCHANGED <<stream, reader, wrapped, bytes_needed, telegrams_needed, limit,
                 telegram_1_len, telegrams_len, yielded, ioerrs, resyncs, attempt, dripped, interrupted>>

\* Mutant: the buffer is not drained on success.
DecryptOk_NoDrain ==
  /\ pc = "decrypt"
  /\ LET d == decrypt(telegrams) IN
       /\ d.tag = "Ok"
       /\ Return(OkItem(d.apdu))
  /\ spans' = Append(spans, [start |-> consumed, end |-> consumed + telegrams_len])
  /\ telegrams' = <<>>
  /\ UNCHANGED <<stream, reader, wrapped, buffer, bytes_needed, telegrams_needed, limit,
                 telegram_1_len, telegrams_len, yielded, consumed, ioerrs, resyncs,
                 attempt, dripped, interrupted>>

\* Ok(apdu) => { drop(telegrams); buffer.drain(0..telegrams_len); return Some(Ok(apdu)); }
DecryptOk ==
  /\ pc = "decrypt"
  /\ LET d == decrypt(telegrams) IN
       /\ d.tag = "Ok"
       /\ Return(OkItem(d.apdu))
  /\ buffer' = Drain(buffer, telegrams_len)
  /\ consumed' = consumed + telegrams_len
  /\ spans' = Append(spans, [start |-> consumed, end |-> consumed + telegrams_len])
  /\ telegrams' = <<>>
  /\ UNCHANGED <<stream, reader, wrapped, bytes_needed, telegrams_needed, limit,
                 telegram_1_len, telegrams_len, yielded, ioerrs, resyncs, attempt, dripped, interrupted>>

\* Mutant: the hint of DlmsError::Incomplete is ignored, one more frame is asked for.
DecryptIncomplete_PlusOne ==
  /\ pc = "decrypt"
  /\ decrypt(telegrams).tag = "Incomplete"
  /\ telegrams_needed' = telegrams_needed + 1
  /\ telegrams' = <<>>
  /\ attempt' = [attempt EXCEPT !.outcome = "NeedsMore"]
  /\ pc' = "read"
  /\ UNCHANGED <<stream, reader, wrapped, buffer, bytes_needed, limit, telegram_1_len,
                 telegrams_len, item, engine_out, yielded, spans, consumed, ioerrs,
                 resyncs, dripped, interrupted>>

\* Err(DlmsError::Incomplete(n)) => { telegrams_needed += ...; } and the loop goes round
DecryptIncomplete ==
  /\ pc = "decrypt"
  /\ LET d == decrypt(telegrams) IN
       /\ d.tag = "Incomplete"
       /\ telegrams_needed' = telegrams_needed + UnwrapOr1(d.hint)
  /\ telegrams' = <<>>
  /\ attempt' = [attempt EXCEPT !.outcome = "NeedsMore"]
  /\ pc' = "read"
  /\ UNCHANGED <<stream, reader, wrapped, buffer, bytes_needed, limit, telegram_1_len,
                 telegrams_len, item, engine_out, yielded, spans, consumed, ioerrs,
                 resyncs, dripped, interrupted>>

\* Mutant: a soft failure is returned to the caller.
DecryptSoft_Surfaces ==
  /\ pc = "decrypt"
  /\ decrypt(telegrams).tag \in {"InvalidFormat", "ChecksumMismatch"}
  /\ Return(ErrItem(decrypt(telegrams).tag))
  /\ telegrams' = <<>>
  /\ UNCHANGED <<stream, reader, wrapped, buffer, bytes_needed, telegrams_needed, limit,
                 telegram_1_len, telegrams_len, yielded, spans, consumed, ioerrs,
                 resyncs, attempt, dripped, interrupted>>

\* Mutant: a soft failure drains every frame of the Frame Set.
DecryptSoft_DrainAll ==
  /\ pc = "decrypt"
  /\ decrypt(telegrams).tag \in {"InvalidFormat", "ChecksumMismatch"}
  /\ buffer' = Drain(buffer, telegrams_len)
  /\ consumed' = consumed + telegrams_len
  /\ telegrams_needed' = 1
  /\ telegrams' = <<>>
  /\ attempt' = [attempt EXCEPT !.outcome = "SoftFailure"]
  /\ pc' = "read"
  /\ UNCHANGED <<stream, reader, wrapped, bytes_needed, limit, telegram_1_len,
                 telegrams_len, item, engine_out, yielded, spans, ioerrs, resyncs, dripped, interrupted>>

\* Err(DlmsError::InvalidFormat | DlmsError::ChecksumMismatch) =>
\*   { drop(telegrams); buffer.drain(0..telegram_1_len); telegrams_needed = 1; continue; }
DecryptSoft ==
  /\ pc = "decrypt"
  /\ decrypt(telegrams).tag \in {"InvalidFormat", "ChecksumMismatch"}
  /\ buffer' = Drain(buffer, telegram_1_len)
  /\ consumed' = consumed + telegram_1_len
  /\ telegrams_needed' = 1
  /\ telegrams' = <<>>
  /\ attempt' = [attempt EXCEPT !.outcome = "SoftFailure"]
  /\ pc' = "read"
  /\ UNCHANGED <<stream, reader, wrapped, bytes_needed, limit, telegram_1_len,
                 telegrams_len, item, engine_out, yielded, spans, ioerrs, resyncs, dripped, interrupted>>

\* Mutant: a hard failure drains the first frame like a soft failure.
DecryptFailed_Resyncs ==
  /\ pc = "decrypt"
  /\ decrypt(telegrams).tag = "DecryptionFailed"
  /\ Return(ErrItem("DecryptionFailed"))
  /\ buffer' = Drain(buffer, telegram_1_len)
  /\ consumed' = consumed + telegram_1_len
  /\ telegrams' = <<>>
  /\ UNCHANGED <<stream, reader, wrapped, bytes_needed, telegrams_needed, limit,
                 telegram_1_len, telegrams_len, yielded, spans, ioerrs,
                 resyncs, attempt, dripped, interrupted>>

\* Err(DlmsError::DecryptionFailed) => return Some(Err(Error::DecryptionFailed))
DecryptFailed ==
  /\ pc = "decrypt"
  /\ decrypt(telegrams).tag = "DecryptionFailed"
  /\ Return(ErrItem("DecryptionFailed"))
  /\ telegrams' = <<>>
  /\ UNCHANGED <<stream, reader, wrapped, buffer, bytes_needed, telegrams_needed, limit,
                 telegram_1_len, telegrams_len, yielded, spans, consumed, ioerrs,
                 resyncs, attempt, dripped, interrupted>>

----------------------------------------------------------------------------
(* The iterators' next() around parse_next *)

Yield(it) ==
  /\ yielded' = Append(yielded, it)
  /\ pc' = "idle"
  /\ UNCHANGED <<stream, reader, wrapped, buffer, bytes_needed, telegrams_needed, limit,
                 telegrams, telegram_1_len, telegrams_len, item, engine_out, spans,
                 consumed, ioerrs, resyncs, attempt, dripped, interrupted>>

\* MBusSmartMeter::next / HdlcSmartMeter::next called by the user directly
EngineNext ==
  /\ pc = "ret"
  /\ ~wrapped
  /\ Yield(item)

\* ObisIterator::next: Err(err) => return Some(Err(err))
ObisErr ==
  /\ pc = "ret"
  /\ wrapped
  /\ ~item.ok
  /\ Yield(item)

\* ObisIterator::next: Ok((_, obis)) => return Some(Ok(obis))
ObisOk ==
  /\ pc = "ret"
  /\ wrapped
  /\ item.ok
  /\ LET o == ObisMap_parse(item.apdu) IN
       /\ o.tag = "Ok"
       /\ Yield([ok |-> TRUE, obis |-> o.obis])

\* Mutant: a payload the decoder rejects is returned as an error.
ObisSkip_Surfaces ==
  /\ pc = "ret"
  /\ wrapped
  /\ item.ok
  /\ ObisMap_parse(item.apdu).tag = "Err"
  /\ Yield(ErrItem("Decode"))

\* ObisIterator::next: Err(_) => (), and the for loop pulls the engine again
ObisSkip ==
  /\ pc = "ret"
  /\ wrapped
  /\ item.ok
  /\ ObisMap_parse(item.apdu).tag = "Err"
  /\ EnterParseNext
  /\ UNCHANGED <<stream, reader, wrapped, buffer, item, engine_out, yielded, spans,
                 consumed, ioerrs, resyncs, dripped, interrupted>>

Next ==
  \/ Pull
  \/ ReadChunk
  \/ ReadEof
  \/ ReadDone
  \/ ReadErr
  \/ ParseIncomplete
  \/ ParseInvalidStart
  \/ ParseOther
  \/ ParseComplete
  \/ DecryptOk
  \/ DecryptIncomplete
  \/ DecryptSoft
  \/ DecryptFailed
  \/ EngineNext
  \/ ObisErr
  \/ ObisOk
  \/ ObisSkip

Spec == Init /\ [][Next]_vars

\* read_to_end: a read() that fails with ErrorKind::Interrupted is ignored and
\* the read is issued again (std::io::Read::read_to_end).
ReadInterrupted ==
  /\ pc = "read"
  /\ limit > 0
  /\ ~interrupted
  /\ interrupted' = TRUE
  /\ UNCHANGED <<stream, reader, wrapped, buffer, bytes_needed, telegrams_needed, limit,
                 telegrams, telegram_1_len, telegrams_len, pc, item, engine_out, yielded,
                 spans, consumed, ioerrs, resyncs, attempt, dripped>>

\* The engine iterator used directly, over a source whose reads can be interrupted.
InitIntr == Init /\ ~wrapped

NextIntr ==
  \/ Pull
  \/ ReadChunk
  \/ ReadEof
  \/ ReadDone
  \/ ReadErr
  \/ ReadInterrupted
  \/ ParseIncomplete
  \/ ParseInvalidStart
  \/ ParseOther
  \/ ParseComplete
  \/ DecryptOk
  \/ DecryptIncomplete
  \/ DecryptSoft
  \/ DecryptFailed
  \/ EngineNext

SpecIntr == InitIntr /\ [][NextIntr]_vars

----------------------------------------------------------------------------
(* Views of the histories *)

HardFailure == ErrItem("DecryptionFailed")

\* The first frame of the previous attempt's buffer.
FirstFrame(buf) == parse_frame(buf).frame

\* The frames the previous attempt parsed.
AttemptFrames == ParseFrames(attempt.buf, attempt.needed).telegrams

Malformed == {"InvalidStart", "Other"}

\* The two-frame message of the multi-frame scenario.
MBusTwoFrames == <<"M", "p", "p", "F", "p">>

\* The first n bytes of the stream are each classified Malformed when at the front.
GarbagePrefix(n) ==
  \A i \in 0..(n - 1) : ParseErrorFrom(parse_frame(Drop(stream, i))).tag \in Malformed

\* s starts with a message of exactly k frames.
IsMessage(s, k) ==
  LET r == ParseFrames(s, k) IN
    /\ r.err = "None"
    /\ decrypt(r.telegrams) = [tag |-> "Ok", apdu |-> r.telegrams]
    /\ \A j \in 1..(k - 1) : decrypt(ParseFrames(s, j).telegrams).tag = "Incomplete"

\* parse_next over a source that serves each read_to_end in one read():
\* the messages emitted until the stream ends or a hard failure is returned.
RECURSIVE WholeRun(_, _, _, _)
WholeRun(buf, rd, bn, tn) ==
  LET k    == Min(bn, Len(rd))
      buf2 == buf \o Prefix(rd, k)
      rd2  == Drop(rd, k)
      r    == ParseFrames(buf2, tn)
  IN CASE r.err = "Incomplete" ->
            IF rd2 = <<>> THEN <<>> ELSE WholeRun(buf2, rd2, UnwrapOr1(r.hint), tn)
       [] r.err \in Malformed -> WholeRun(Tail(buf2), rd2, 0, tn)
       [] OTHER ->
            LET d == decrypt(r.telegrams) IN
            CASE d.tag = "Ok" ->
                   <<d.apdu>> \o WholeRun(Drop(buf2, r.telegrams_len), rd2, 0, 1)
              [] d.tag = "Incomplete" -> WholeRun(buf2, rd2, 0, tn + UnwrapOr1(d.hint))
              [] d.tag = "DecryptionFailed" -> <<>>
              [] OTHER -> WholeRun(Drop(buf2, r.telegram_1_len), rd2, 0, 1)

RECURSIVE OkApdus(_)
OkApdus(items) ==
  IF items = <<>> THEN <<>>
  ELSE (IF Head(items).ok THEN <<Head(items).apdu>> ELSE <<>>) \o OkApdus(Tail(items))

IsPrefix(a, b) == Len(a) <= Len(b) /\ a = Prefix(b, Len(a))

\* The engine can emit nothing more: it waits at the end of the stream, or
\* it has returned the hard failure.
Exhausted ==
  \/ (pc = "read" /\ limit > 0 /\ reader = <<>>)
  \/ (pc = "ret" /\ item = HardFailure)

\* ObisIterator::next over a sequence of engine items.
RECURSIVE ObisView(_)
ObisView(items) ==
  IF items = <<>> THEN <<>>
  ELSE LET it == Head(items) IN
       (IF ~it.ok THEN <<it>>
        ELSE IF ObisMap_parse(it.apdu).tag = "Ok"
             THEN << [ok |-> TRUE, obis |-> Flatten(it.apdu)] >>
             ELSE <<>>) \o ObisView(Tail(items))

\* The engine items the ObisIterator has looked at.
Handled == IF pc = "ret" THEN Prefix(engine_out, Len(engine_out) - 1) ELSE engine_out

----------------------------------------------------------------------------
(* C1: a hard decryption failure is terminal: once the engine (or the
   ObisIterator around it) has produced Err(DecryptionFailed), it produces
   no further item.  Stated on the histories: only the last item of
   engine_out, and of yielded, can be the hard failure. *)
C1_HardFailureTerminal ==
  /\ \A i \in 1..Len(engine_out) : engine_out[i] = HardFailure => i = Len(engine_out)
  /\ \A i \in 1..Len(yielded) : yielded[i] = HardFailure => i = Len(yielded)

----------------------------------------------------------------------------
(* C2: the only errors parse_next returns, and the only errors the caller
   sees, are Io and DecryptionFailed; while an Incomplete, Malformed or soft
   failure outcome is being handled the engine is still inside its loop. *)
C2_OnlyIoAndHardFailure ==
  /\ \A i \in 1..Len(engine_out) :
       engine_out[i].ok \/ engine_out[i].err \in {"Io", "DecryptionFailed"}
  /\ \A i \in 1..Len(yielded) :
       yielded[i].ok \/ yielded[i].err \in {"Io", "DecryptionFailed"}
  /\ attempt.outcome \in {"Incomplete", "InvalidStart", "Other", "NeedsMore", "SoftFailure"}
       => pc \in {"read", "parse"} \/ item = ErrItem("Io")

\* A soft failure and a resync have both been absorbed and the pull then returned Ok.
C2_Witness ==
  /\ pc = "ret"
  /\ item.ok
  /\ resyncs > 0
  /\ Len(engine_out) = 1
  /\ \E k \in 1..Len(stream) : stream[k] \in {"X", "C"} /\ k <= consumed

----------------------------------------------------------------------------
(* C3: after a Malformed classification of any frame of an attempt, the
   next parse attempt starts on the previous buffer without its front byte,
   and nothing was read from the source in between. *)
C3_ResyncDropsOneByte ==
  (pc = "parse" /\ attempt.outcome \in Malformed) =>
     /\ Len(buffer) = Len(attempt.buf) - 1
     /\ buffer = Tail(attempt.buf)
     /\ NRead = attempt.nread

\* The malformed frame was the second frame of the attempt.
C3_Witness ==
  /\ pc = "parse"
  /\ attempt.outcome \in Malformed
  /\ attempt.needed = 2
  /\ parse_frame(attempt.buf).tag = "Ok"

----------------------------------------------------------------------------
(* C4: when parse_next returns Ok, the bytes removed from the front of the
   buffer are exactly the frames parsed in the successful attempt, and the
   bytes after them are still in the buffer, unchanged. *)
C4_DrainCorrectness ==
  (pc = "ret" /\ item.ok) =>
     /\ attempt.outcome = "Complete"
     /\ Len(attempt.buf) - Len(buffer) = SumLen(AttemptFrames)
     /\ attempt.buf = Flatten(AttemptFrames) \o buffer
     /\ spans[Len(spans)].end - spans[Len(spans)].start = SumLen(AttemptFrames)

\* A success over a Frame Set of two or more frames of different lengths.
C4_Witness ==
  /\ pc = "ret"
  /\ item.ok
  /\ Len(AttemptFrames) >= 2
  /\ Len(AttemptFrames[1]) # Len(AttemptFrames[2])

----------------------------------------------------------------------------
(* C5: after a soft decryption failure over a Frame Set of any length, the
   buffer is the previous buffer without its first frame, telegrams_needed
   is 1, bytes_needed is 0 (nothing is read before the next attempt) and
   parse_next has not returned. *)
C5_SoftFailureDrain ==
  attempt.outcome = "SoftFailure" =>
     /\ pc \in {"read", "parse"}
     /\ buffer = Drop(attempt.buf, Len(FirstFrame(attempt.buf)))
     /\ Len(attempt.buf) - Len(buffer) = Len(AttemptFrames[1])
     /\ telegrams_needed = 1
     /\ bytes_needed = 0
     /\ limit = 0
     /\ NRead = attempt.nread

\* A soft failure over a Frame Set of two or more frames.
C5_Witness ==
  /\ attempt.outcome = "SoftFailure"
  /\ attempt.needed >= 2
  /\ pc = "parse"

----------------------------------------------------------------------------
(* C6: when the decryption layer reports needs-more without a hint for
   [frame 1] and succeeds for [frame 1, frame 2], parse_next returns one
   Ok(message) made of both frames, and the bytes drained are frame 1
   followed by frame 2: frame 1 was still at the front of the buffer. *)
C6_MultiFrameAccumulation ==
  /\ (/\ pc = "ret"
      /\ item.ok
      /\ attempt.needed = 2
      /\ decrypt(<<FirstFrame(attempt.buf)>>) = [tag |-> "Incomplete", hint |-> NoHint])
     => /\ Len(item.apdu) = 2
        /\ item.apdu[1] = FirstFrame(attempt.buf)
        /\ attempt.buf = item.apdu[1] \o item.apdu[2] \o buffer
        /\ LET sp == spans[Len(spans)] IN
             SubSeq(stream, sp.start + 1, sp.end) = item.apdu[1] \o item.apdu[2]
  /\ (stream = MBusTwoFrames /\ ioerrs = 0 /\ engine_out # <<>>)
     => /\ engine_out = << OkItem(<< <<"M", "p", "p">>, <<"F", "p">> >>) >>
        /\ spans = << [start |-> 0, end |-> 5] >>
        /\ consumed = 5

\* The two-frame message has been returned and the whole stream consumed.
C6_Witness ==
  /\ stream = MBusTwoFrames
  /\ pc = "ret"
  /\ item.ok
  /\ attempt.needed = 2
  /\ buffer = <<>>

----------------------------------------------------------------------------
(* C7: N leading garbage bytes, each classified Malformed at the front of
   the buffer, followed by a well-formed message: unless the Byte Source
   fails, the first item of the engine is Ok of the message's frames, the
   same for every N (N = 0 is the message alone), after exactly N resyncs. *)
C7_IdempotentResync ==
  (pc = "ret" /\ Len(engine_out) = 1 /\ ioerrs = 0) =>
     \A n \in 0..Len(stream) : \A k \in 1..Len(stream) :
        (GarbagePrefix(n) /\ IsMessage(Drop(stream, n), k)) =>
           LET m == ParseFrames(Drop(stream, n), k) IN
             /\ item = OkItem(m.telegrams)
             /\ resyncs = n
             /\ consumed = n + m.telegrams_len

\* Two garbage bytes were dropped before the message was returned.
C7_Witness ==
  /\ pc = "ret"
  /\ Len(engine_out) = 1
  /\ ioerrs = 0
  /\ item.ok
  /\ resyncs = 2
  /\ GarbagePrefix(2)
  /\ \E k \in 1..Len(stream) : IsMessage(Drop(stream, 2), k)

----------------------------------------------------------------------------
(* C8: the messages the engine emits do not depend on how the Byte Source
   splits the bytes across reads: with a source that never fails, whatever
   the chunks (one byte per read included), they are the messages of the
   engine run over a source that serves every read in one chunk. *)
C8_DripFeedEquivalence ==
  ioerrs = 0 =>
     /\ pc = "ret" => IsPrefix(OkApdus(engine_out), WholeRun(<<>>, stream, 0, 1))
     /\ Exhausted => OkApdus(engine_out) = WholeRun(<<>>, stream, 0, 1)

\* A well-formed stream of two messages; the second one needed a read of two
\* bytes, which was served one byte at a time before the message was emitted.
C8_Witness ==
  /\ stream = <<"F", "p">> \o MBusTwoFrames
  /\ ioerrs = 0
  /\ dripped
  /\ Exhausted
  /\ Len(OkApdus(engine_out)) = 2

----------------------------------------------------------------------------
(* C9: messages are emitted in stream order: each emitted message's Frame
   Set starts at or after the end of every earlier one (so no byte is in
   two messages), lies in the bytes read so far, and the message is made of
   the stream bytes at its offsets. *)
C9_EmittedInStreamOrder ==
  /\ Len(spans) = Len(OkApdus(engine_out))
  /\ \A j \in 1..Len(spans) :
       /\ 0 <= spans[j].start
       /\ spans[j].start < spans[j].end
       /\ spans[j].end <= NRead
       /\ \A i \in 1..(j - 1) : spans[i].end <= spans[j].start
       /\ IsPrefix(Flatten(OkApdus(engine_out)[j]),
                   SubSeq(stream, spans[j].start + 1, spans[j].end))

\* Two messages emitted, with bytes skipped before the second one.
C9_Witness ==
  /\ Len(spans) = 2
  /\ spans[1].end < spans[2].start

----------------------------------------------------------------------------
(* C10: what the ObisIterator hands to the caller is what the engine
   returned, with every Ok(apdu) that ObisMap::parse rejects left out, every
   other Ok decoded and every Err unchanged; a decode failure is never an
   error of the ObisIterator. *)
C10_ObisIteratorSkipsUndecodable ==
  wrapped =>
     /\ yielded = ObisView(Handled)
     /\ \A i \in 1..Len(yielded) :
          yielded[i].ok \/ yielded[i].err \in {"Io", "DecryptionFailed"}
     /\ (pc = "idle" /\ engine_out # <<>>) =>
          LET last == engine_out[Len(engine_out)] IN
            ~last.ok \/ ObisMap_parse(last.apdu).tag = "Ok"

\* An undecodable message was skipped inside a pull that then returned a reading.
C10_Witness ==
  /\ wrapped
  /\ pc = "idle"
  /\ Len(yielded) = 1
  /\ yielded[1].ok
  /\ Len(engine_out) = 2

----------------------------------------------------------------------------
\* The Err(Io) items among the items of the engine.
RECURSIVE IoCount(_)
IoCount(items) ==
  IF items = <<>> THEN 0
  ELSE (IF Head(items) = ErrItem("Io") THEN 1 ELSE 0) + IoCount(Tail(items))

(* C11 as stated: every read failure of the Byte Source is surfaced at once
   as Err(Io): no state exists in which a read has failed and the engine is
   still reading (the read is not retried). *)
C11_ReadFailureSurfaced ==
  /\ ioerrs = IoCount(engine_out)
  /\ interrupted => (pc = "ret" /\ item = ErrItem("Io"))

(* C11, amended: a read failure of a kind other than Interrupted is
   surfaced by the very step that meets it, as Err(Io), with no read, parse
   attempt, decryption or drain in between (the bytes read before it stay in
   the buffer); a read that fails with Interrupted is issued again inside
   read_to_end and is never surfaced. *)
C11_FailureSurfacedUnlessInterrupted ==
  /\ ioerrs = IoCount(engine_out)
  /\ interrupted => (pc = "read" /\ limit > 0)
  /\ (pc = "ret" /\ item = ErrItem("Io")) =>
        /\ attempt.outcome = "Incomplete"
        /\ IsPrefix(attempt.buf, buffer)
        /\ Len(buffer) - Len(attempt.buf) = NRead - attempt.nread
        /\ Len(buffer) - Len(attempt.buf) < bytes_needed

\* A read() delivered part of the bytes asked for; the next read() failed and
\* the failure was returned.
C11_Witness ==
  /\ pc = "ret"
  /\ item = ErrItem("Io")
  /\ dripped
  /\ Len(buffer) > Len(attempt.buf)

----------------------------------------------------------------------------
(* C12: from an empty buffer, a stream that starts with a well-formed
   single-frame telegram gives Ok of that frame as the first item of a
   source that does not fail, with the buffer empty and nothing read beyond
   the end of the frame; when the stream is that telegram alone, this is
   the only item the engine ever returns and the buffer stays empty. *)
C12_SingleTelegram ==
  (ioerrs = 0 /\ IsMessage(stream, 1)) =>
     /\ (pc = "ret" /\ Len(engine_out) = 1) =>
           /\ item = OkItem(<<FirstFrame(stream)>>)
           /\ buffer = <<>>
           /\ NRead = Len(FirstFrame(stream))
           /\ reader = Drop(stream, Len(FirstFrame(stream)))
     /\ (stream = FirstFrame(stream) /\ engine_out # <<>>) =>
           /\ engine_out = << OkItem(<<stream>>) >>
           /\ buffer = <<>>

\* The stream was one telegram; the caller has its message and the buffer is empty.
C12_Witness ==
  /\ stream = <<"F", "p">>
  /\ ioerrs = 0
  /\ pc = "idle"
  /\ yielded = << OkItem(<< <<"F", "p">> >>) >>
  /\ buffer = <<>>

----------------------------------------------------------------------------
(* C13: parse_next makes progress between parse attempts: no parse attempt
   starts on the buffer and the telegrams_needed of the attempt before it,
   also when the source delivered zero bytes for the read in between (end
   of stream). *)
C13_NoRepeatedAttempt ==
  (pc = "parse" /\ attempt.outcome # "none") =>
     ~(buffer = attempt.buf /\ telegrams_needed = attempt.needed)

----------------------------------------------------------------------------
(* C14: after every resync, whichever frame of the attempt the parser
   rejected, the next attempt starts from bytes_needed = 0 and
   telegrams_needed = 1. *)
C14_ResyncResetsCursor ==
  (pc \in {"read", "parse"} /\ attempt.outcome \in Malformed) =>
     /\ bytes_needed = 0
     /\ telegrams_needed = 1

----------------------------------------------------------------------------
(* C15: when the parser answered Incomplete(hint), the next parse attempt
   starts with exactly bytes_needed = hint (1 for no hint) bytes appended to
   the buffer of the attempt before it, never more and never fewer (a read
   that failed returns and starts no attempt). *)
C15_ReadsExactlyHint ==
  (pc = "parse" /\ attempt.outcome = "Incomplete") =>
     /\ bytes_needed = UnwrapOr1(ParseFrames(attempt.buf, attempt.needed).hint)
     /\ IsPrefix(attempt.buf, buffer)
     /\ Len(buffer) - Len(attempt.buf) = bytes_needed
     /\ NRead - attempt.nread = bytes_needed

----------------------------------------------------------------------------
(* C16: when decryption answered Incomplete(hint), telegrams_needed grows by
   hint (1 for no hint), the buffer is left as it was, bytes_needed is 0 so
   nothing is read, and the next attempt parses from the front of the buffer:
   its first frames are the frames of the attempt before it. *)
C16_NeedsMoreGrowsFrameSet ==
  (pc \in {"read", "parse"} /\ attempt.outcome = "NeedsMore") =>
     /\ decrypt(AttemptFrames).tag = "Incomplete"
     /\ telegrams_needed = attempt.needed + UnwrapOr1(decrypt(AttemptFrames).hint)
     /\ buffer = attempt.buf
     /\ bytes_needed = 0
     /\ limit = 0
     /\ NRead = attempt.nread
     /\ LET r == ParseFrames(buffer, telegrams_needed) IN
          /\ Len(r.telegrams) >= attempt.needed
          /\ Prefix(r.telegrams, attempt.needed) = AttemptFrames

\* Decryption asked for two more frames and the next attempt is about to start.
C16_Witness ==
  /\ pc = "parse"
  /\ attempt.outcome = "NeedsMore"
  /\ decrypt(AttemptFrames).hint = 2
  /\ telegrams_needed = attempt.needed + 2

----------------------------------------------------------------------------
(* C17: when the parser answered Incomplete(hint) for any frame of the
   attempt, no byte is removed from the buffer, the frames parsed so far are
   discarded, bytes_needed is hint (1 for no hint) and telegrams_needed is
   what it was. *)
C17_IncompleteKeepsBuffer ==
  (pc \in {"read", "parse"} /\ attempt.outcome = "Incomplete") =>
     LET r == ParseFrames(attempt.buf, attempt.needed) IN
       /\ r.err = "Incomplete"
       /\ bytes_needed = UnwrapOr1(r.hint)
       /\ telegrams_needed = attempt.needed
       /\ telegrams = <<>>
       /\ IsPrefix(attempt.buf, buffer)
       /\ Len(buffer) - Len(attempt.buf) = NRead - attempt.nread

\* The first frame parsed, the second one is two bytes short.
C17_Witness ==
  /\ pc = "read"
  /\ attempt.outcome = "Incomplete"
  /\ attempt.needed = 2
  /\ Len(AttemptFrames) = 1
  /\ bytes_needed = 2
  /\ telegrams_needed = 2
  /\ buffer = attempt.buf

----------------------------------------------------------------------------
(* C18: the buffer is a contiguous window of the stream: the bytes from the
   offset consumed so far up to the offset read so far. *)
C18_BufferIsStreamWindow ==
  /\ consumed <= NRead
  /\ NRead <= Len(stream)
  /\ buffer = SubSeq(stream, consumed + 1, NRead)

\* A soft failure drained the first frame, a later frame is still buffered
\* and the source has more bytes to give.
C18_Witness ==
  /\ attempt.outcome = "SoftFailure"
  /\ consumed > 0
  /\ buffer # <<>>
  /\ reader # <<>>

----------------------------------------------------------------------------
(* C19: no buffer mutation is out of bounds: buffer.remove(0) is reached
   with a non-empty buffer only, and the drains are reached with
   telegram_1_len <= telegrams_len <= buffer.len(), the lengths of the frames
   at the front of the buffer. *)
C19_MutationsInBounds ==
  /\ telegrams_needed >= 1
  /\ (pc = "parse" /\ ParseFrames(buffer, telegrams_needed).err \in Malformed) =>
        buffer # <<>>
  /\ pc = "decrypt" =>
        /\ 0 < telegram_1_len
        /\ telegram_1_len <= telegrams_len
        /\ telegrams_len <= Len(buffer)
        /\ telegram_1_len = Len(telegrams[1])
        /\ Flatten(telegrams) = Prefix(buffer, telegrams_len)

\* After a resync in this call, a Frame Set of more than one frame is about
\* to be decrypted.
C19_Witness ==
  /\ pc = "decrypt"
  /\ resyncs > 0
  /\ telegram_1_len < telegrams_len

----------------------------------------------------------------------------
(* C20: a hard decryption failure leaves the buffer as it is: the step that
   returns Err(DecryptionFailed) removes no byte and reads none, the frames
   that failed stay at the front of the buffer until the next call, and the
   next call starts with bytes_needed = 0 and telegrams_needed = 1 over the
   same buffer. *)
C20_HardFailureKeepsBuffer ==
  [][ /\ (pc = "decrypt" /\ decrypt(telegrams).tag = "DecryptionFailed") =>
            /\ pc' = "ret"
            /\ item' = HardFailure
            /\ buffer' = buffer
            /\ consumed' = consumed
            /\ reader' = reader
            /\ Flatten(telegrams) = Prefix(buffer', telegrams_len)
      /\ (pc \in {"ret", "idle"} /\ item = HardFailure) =>
            /\ buffer' = buffer
            /\ consumed' = consumed
            /\ reader' = reader
            /\ pc' = "read" => /\ bytes_needed' = 0
                               /\ telegrams_needed' = 1
                               /\ limit' = 0 ]_vars

\* The call after a hard failure has started over the bytes that failed.
C20_Witness ==
  /\ pc = "read"
  /\ attempt = NoAttempt
  /\ item = HardFailure
  /\ bytes_needed = 0
  /\ telegrams_needed = 1
  /\ decrypt(ParseFrames(buffer, 1).telegrams).tag = "DecryptionFailed"

====
